---- MODULE Spec2Model ----
(***************************************************************************)
(* A model of trurl (src/trurl.c): the option model built from the command *)
(* line, the per-URL mutation executor (singleurl, set), the format        *)
(* template interpreter (format) and the batch loop of main.               *)
(*                                                                         *)
(* C strings are sequences of one-character strings.  A pointer that may   *)
(* be NULL is an option: None, or Some(v).                                 *)
(***************************************************************************)
EXTENDS Integers, Sequences, FiniteSets, TLC

None == <<>>
Some(v) == <<v>>
IsSome(x) == Len(x) = 1
Val(x) == x[1]

(***************************************************************************)
(* Bounds of the checked instances.                                        *)
(***************************************************************************)
MaxUrls == 2
MaxSets == 2
MaxAppends == 2
MaxTokens == 3
MaxFile == 4

(***************************************************************************)
(* libc string helpers.                                                    *)
(***************************************************************************)
Min(a, b) == IF a < b THEN a ELSE b

\* strchr(s, c): the index of the first c in s, 0 when there is none (NULL)
strchr(s, c) ==
  IF \E i \in 1..Len(s) : s[i] = c
  THEN CHOOSE i \in 1..Len(s) : s[i] = c /\ \A j \in 1..(i - 1) : s[j] # c
  ELSE 0

\* strchr starting at position from (1-based)
strchrFrom(s, from, c) ==
  IF \E i \in from..Len(s) : s[i] = c
  THEN CHOOSE i \in from..Len(s) : s[i] = c /\ \A j \in from..(i - 1) : s[j] # c
  ELSE 0

UpperCase == <<"A","B","C","D","E","F","G","H","I","J","K","L","M",
               "N","O","P","Q","R","S","T","U","V","W","X","Y","Z">>
LowerCase == <<"a","b","c","d","e","f","g","h","i","j","k","l","m",
               "n","o","p","q","r","s","t","u","v","w","x","y","z">>
Digits == <<"0","1","2","3","4","5","6","7","8","9">>

tolower(c) ==
  IF \E i \in 1..26 : UpperCase[i] = c
  THEN LowerCase[CHOOSE i \in 1..26 : UpperCase[i] = c]
  ELSE c

\* !strncasecmp(a + from - 1, name, n), for strlen(name) = n: the n
\* characters of a from position from equal name, case ignored.  A
\* comparison that runs into the end of a differs there.
strncasecmpEq(a, from, name, n) ==
  /\ from + n - 1 <= Len(a)
  /\ \A k \in 1..n : tolower(a[from + k - 1]) = tolower(name[k])

SubStr(s, from, to) == IF from > to THEN <<>> ELSE SubSeq(s, from, to)

(***************************************************************************)
(* The component registry (variables[]).                                   *)
(***************************************************************************)
NUM_COMPONENTS == 11

variables == <<
  [name |-> <<"u","r","l">>,                      part |-> "url"],
  [name |-> <<"s","c","h","e","m","e">>,          part |-> "scheme"],
  [name |-> <<"u","s","e","r">>,                  part |-> "user"],
  [name |-> <<"p","a","s","s","w","o","r","d">>,  part |-> "password"],
  [name |-> <<"o","p","t","i","o","n","s">>,      part |-> "options"],
  [name |-> <<"h","o","s","t">>,                  part |-> "host"],
  [name |-> <<"p","o","r","t">>,                  part |-> "port"],
  [name |-> <<"p","a","t","h">>,                  part |-> "path"],
  [name |-> <<"q","u","e","r","y">>,              part |-> "query"],
  [name |-> <<"f","r","a","g","m","e","n","t">>,  part |-> "fragment"],
  [name |-> <<"z","o","n","e","i","d">>,          part |-> "zoneid"] >>

Parts == {variables[i].part : i \in 1..NUM_COMPONENTS}
StoredParts == Parts \ {"url"}

(***************************************************************************)
(* The URL Engine (libcurl's URL API), as the calls of trurl.c use it: a   *)
(* handle holds each component or not; set stores a value or rejects it;   *)
(* get returns the stored value or fails because the component is absent.  *)
(***************************************************************************)
CURLUE_OK == "CURLUE_OK"

\* curl_url(): a handle with no component
curl_url == [p \in StoredParts |-> None]

IsUnreserved(c) ==
  \/ \E i \in 1..26 : UpperCase[i] = c \/ LowerCase[i] = c
  \/ \E i \in 1..10 : Digits[i] = c
  \/ c \in {"-", ".", "_", "~"}

HexOf(c) ==
  CASE c = "/"  -> <<"2","F">>
    [] c = "&"  -> <<"2","6">>
    [] c = "="  -> <<"3","D">>
    [] c = "?"  -> <<"3","F">>
    [] c = ":"  -> <<"3","A">>
    [] c = " "  -> <<"2","0">>
    [] c = "%"  -> <<"2","5">>
    [] c = "#"  -> <<"2","3">>
    [] c = "{"  -> <<"7","B">>
    [] c = "}"  -> <<"7","D">>
    [] c = "\r" -> <<"0","D">>
    [] c = "\n" -> <<"0","A">>
    [] OTHER    -> <<"5","C">>

RECURSIVE EscapeAll(_)
EscapeAll(s) ==
  IF s = <<>> THEN <<>>
  ELSE (IF IsUnreserved(s[1]) THEN <<s[1]>> ELSE <<"%">> \o HexOf(s[1]))
       \o EscapeAll(Tail(s))

\* curl_easy_escape(NULL, s, length): percent-encodes the first length
\* characters of s; a length of 0 means strlen(s)
curl_easy_escape(s, length) ==
  EscapeAll(SubStr(s, 1, IF length = 0 THEN Len(s) ELSE length))

\* the encoding CURLU_URLENCODE applies on set: as above, but a path keeps
\* its slashes
RECURSIVE EncodeOnSet(_, _)
EncodeOnSet(part, s) ==
  IF s = <<>> THEN <<>>
  ELSE (IF IsUnreserved(s[1]) \/ (part = "path" /\ s[1] = "/")
        THEN <<s[1]>> ELSE <<"%">> \o HexOf(s[1]))
       \o EncodeOnSet(part, Tail(s))

AllDigits(s) == s # <<>> /\ \A i \in 1..Len(s) : \E d \in 1..10 : Digits[d] = s[i]

\* the index of the first "://" in s, 0 when there is none
SchemeSep(s) ==
  IF \E i \in 2..(Len(s) - 2) : s[i] = ":" /\ s[i + 1] = "/" /\ s[i + 2] = "/"
  THEN CHOOSE i \in 2..(Len(s) - 2) :
         /\ s[i] = ":" /\ s[i + 1] = "/" /\ s[i + 2] = "/"
         /\ \A j \in 2..(i - 1) : ~(s[j] = ":" /\ s[j + 1] = "/" /\ s[j + 2] = "/")
  ELSE 0

\* path and query of the part of a URL that follows the authority
PathQuery(rest) ==
  LET q == strchr(rest, "?")
      p == IF q = 0 THEN rest ELSE SubStr(rest, 1, q - 1)
  IN [path  |-> Some(IF p = <<>> THEN <<"/">> ELSE p),
      query |-> IF q = 0 THEN None ELSE Some(SubStr(rest, q + 1, Len(rest)))]

\* the last "/" of s, 0 when there is none
LastSlash(s) ==
  IF \E i \in 1..Len(s) : s[i] = "/"
  THEN CHOOSE i \in 1..Len(s) : s[i] = "/" /\ \A j \in (i + 1)..Len(s) : s[j] # "/"
  ELSE 0

\* curl_url_set(uh, CURLUPART_URL, s, CURLU_GUESS_SCHEME|...): parses s;
\* a URL without a scheme is relative when the handle already holds a URL,
\* and gets a guessed scheme otherwise
SetUrl(uh, s) ==
  LET sep == SchemeSep(s)
      bad == s = <<>> \/ \E i \in 1..Len(s) : s[i] \in {" ", "\r", "\n", "\t"}
  IN
  IF bad THEN [rc |-> "CURLUE_MALFORMED_INPUT", uh |-> uh]
  ELSE IF sep = 0 /\ IsSome(uh["host"])
  THEN \* a relative reference, resolved against the handle
    LET old  == IF IsSome(uh["path"]) /\ Val(uh["path"]) # <<>>
                THEN Val(uh["path"]) ELSE <<"/">>
        full == IF s[1] = "/" THEN s ELSE SubStr(old, 1, LastSlash(old)) \o s
        pq   == PathQuery(full)
    IN [rc |-> CURLUE_OK,
        uh |-> [uh EXCEPT !["path"] = pq.path, !["query"] = pq.query,
                          !["fragment"] = None]]
  ELSE
    LET scheme == IF sep = 0 THEN <<"h","t","t","p">> ELSE SubStr(s, 1, sep - 1)
        after  == IF sep = 0 THEN s ELSE SubStr(s, sep + 3, Len(s))
        sl     == strchr(after, "/")
        qm     == strchr(after, "?")
        cut    == IF sl = 0 /\ qm = 0 THEN Len(after) + 1
                  ELSE IF sl = 0 THEN qm
                  ELSE IF qm = 0 THEN sl ELSE Min(sl, qm)
        host   == SubStr(after, 1, cut - 1)
        pq     == PathQuery(SubStr(after, cut, Len(after)))
    IN IF host = <<>> THEN [rc |-> "CURLUE_NO_HOST", uh |-> uh]
       ELSE [rc |-> CURLUE_OK,
             uh |-> [curl_url EXCEPT !["scheme"] = Some(scheme),
                                     !["host"] = Some(host),
                                     !["path"] = pq.path,
                                     !["query"] = pq.query]]

\* curl_url_set(uh, part, value, flags): the code and the handle afterwards
curl_url_set(uh, part, value, urlencode) ==
  IF part = "url" THEN SetUrl(uh, value)
  ELSE IF part = "port" /\ ~AllDigits(value)
  THEN [rc |-> "CURLUE_BAD_PORT_NUMBER", uh |-> uh]
  ELSE [rc |-> CURLUE_OK,
        uh |-> [uh EXCEPT ![part] =
                  Some(IF urlencode THEN EncodeOnSet(part, value) ELSE value)]]

\* the code a get of an absent component returns; a handle always has a path
NoPart == [p \in StoredParts \ {"path"} |->
  CASE p = "scheme"   -> "CURLUE_NO_SCHEME"
    [] p = "user"     -> "CURLUE_NO_USER"
    [] p = "password" -> "CURLUE_NO_PASSWORD"
    [] p = "options"  -> "CURLUE_NO_OPTIONS"
    [] p = "host"     -> "CURLUE_NO_HOST"
    [] p = "port"     -> "CURLUE_NO_PORT"
    [] p = "query"    -> "CURLUE_NO_QUERY"
    [] p = "fragment" -> "CURLUE_NO_FRAGMENT"
    [] OTHER          -> "CURLUE_NO_ZONEID"]

OptStr(prefix, x, suffix) == IF IsSome(x) THEN prefix \o Val(x) \o suffix ELSE <<>>

\* curl_url_get(uh, part, &out, flags): the code and the string, when OK
curl_url_get(uh, part) ==
  IF part = "url"
  THEN IF ~IsSome(uh["scheme"]) THEN [rc |-> "CURLUE_NO_SCHEME", val |-> None]
       ELSE IF ~IsSome(uh["host"]) THEN [rc |-> "CURLUE_NO_HOST", val |-> None]
       ELSE [rc |-> CURLUE_OK,
             val |-> Some(Val(uh["scheme"]) \o <<":","/","/">>
                          \o (IF IsSome(uh["user"])
                              THEN Val(uh["user"]) \o OptStr(<<":">>, uh["password"], <<>>)
                                   \o <<"@">>
                              ELSE <<>>)
                          \o Val(uh["host"])
                          \o OptStr(<<":">>, uh["port"], <<>>)
                          \o OptStr(<<>>, uh["path"], <<>>)
                          \o OptStr(<<"?">>, uh["query"], <<>>)
                          \o OptStr(<<"#">>, uh["fragment"], <<>>))]
  ELSE IF IsSome(uh[part]) THEN [rc |-> CURLUE_OK, val |-> uh[part]]
  ELSE IF part = "path" THEN [rc |-> CURLUE_OK, val |-> Some(<<"/">>)]
  ELSE [rc |-> NoPart[part], val |-> None]

(***************************************************************************)
(* The option model (struct option) and the functions that fill it from    *)
(* the command line.                                                       *)
(***************************************************************************)
NoOptions ==
  [url_list |-> <<>>, append_path |-> <<>>, append_query |-> <<>>,
   set_list |-> <<>>, redirect |-> None, format |-> None, url |-> None]

urladd(o, url) == [o EXCEPT !.url_list = Append(@, url)]

pathadd(o, path) ==
  [o EXCEPT !.append_path = Append(@, curl_easy_escape(path, 0))]

queryadd(o, query) ==
  LET p    == strchr(query, "=")
      urle == IF p # 0
              THEN \* the left and the right side of the '=' separately
                   curl_easy_escape(query, p - 1) \o <<"=">>
                   \o curl_easy_escape(SubStr(query, p + 1, Len(query)), 0)
              ELSE curl_easy_escape(query, 0)
  IN [o EXCEPT !.append_query = Append(@, urle)]

\* --append path=... or query=...; any other component is an error that
\* ends the program (ERROR_APPEND) before any URL is handled, and is not
\* among the command lines checked
appendadd(o, arg) ==
  IF strncasecmpEq(arg, 1, <<"p","a","t","h","=">>, 5)
  THEN pathadd(o, SubStr(arg, 6, Len(arg)))
  ELSE queryadd(o, SubStr(arg, 7, Len(arg)))

setadd(o, set) == [o EXCEPT !.set_list = Append(@, set)]

\* the option arguments of the command line, taken in order
RECURSIVE AddUrls(_, _)
AddUrls(o, args) ==
  IF args = <<>> THEN o ELSE AddUrls(urladd(o, Head(args)), Tail(args))

RECURSIVE AddSets(_, _)
AddSets(o, args) ==
  IF args = <<>> THEN o ELSE AddSets(setadd(o, Head(args)), Tail(args))

RECURSIVE AddAppends(_, _)
AddAppends(o, args) ==
  IF args = <<>> THEN o ELSE AddAppends(appendadd(o, Head(args)), Tail(args))

(***************************************************************************)
(* format(): the template interpreter.  A state of its loop is the         *)
(* position ptr in the template, the characters written to stdout and the  *)
(* diagnostics written to stderr.                                          *)
(***************************************************************************)
AbsentCodes ==
  {"CURLUE_NO_SCHEME", "CURLUE_NO_USER", "CURLUE_NO_PASSWORD",
   "CURLUE_NO_OPTIONS", "CURLUE_NO_HOST", "CURLUE_NO_PORT",
   "CURLUE_NO_QUERY", "CURLUE_NO_FRAGMENT", "CURLUE_NO_ZONEID"}

\* the for loop over variables[] for the name fmt[from .. from + vlen - 1]
RECURSIVE FormatVars(_, _, _, _, _, _)
FormatVars(fmt, from, vlen, uh, i, st) ==
  IF i > NUM_COMPONENTS THEN st
  ELSE
    LET v == variables[i]
        g == curl_url_get(uh, v.part)
        next ==
          IF Len(v.name) = vlen /\ strncasecmpEq(fmt, from, v.name, vlen)
          THEN IF g.rc = CURLUE_OK THEN [st EXCEPT !.out = @ \o Val(g.val)]
               ELSE IF g.rc \in AbsentCodes THEN st
               ELSE [st EXCEPT !.err = Append(@, <<g.rc, v.part>>)]
          ELSE st
    IN FormatVars(fmt, from, vlen, uh, i + 1, next)

\* the branch of format for a '{' at fmt[st.ptr]
FormatBrace(fmt, uh, st) ==
  LET ptr == st.ptr
  IN IF ptr + 1 <= Len(fmt) /\ fmt[ptr + 1] = "{"
     THEN \* an escaped {-letter
          [st EXCEPT !.out = Append(@, "{"), !.ptr = ptr + 2]
     ELSE LET end == strchrFrom(fmt, ptr, "}")
          IN IF end = 0
             THEN \* syntax error: continue, with the { passed
                  [st EXCEPT !.ptr = ptr + 1]
             ELSE [FormatVars(fmt, ptr + 1, end - (ptr + 1), uh, 1, st)
                     EXCEPT !.ptr = end + 1]

\* the branch of format for a backslash followed by a character
FormatEscape(fmt, st) ==
  LET ptr == st.ptr
  IN [st EXCEPT !.ptr = ptr + 2,
                !.out = CASE fmt[ptr + 1] = "r" -> Append(@, "\r")
                          [] fmt[ptr + 1] = "n" -> Append(@, "\n")
                          [] fmt[ptr + 1] = "t" -> Append(@, "\t")
                          [] OTHER -> @ \o <<fmt[ptr], fmt[ptr + 1]>>]

\* a format that takes }} for an escaped }, as it takes {{ for a {
FormatLiteralClosingEscape(fmt, st) ==
  IF fmt[st.ptr] = "}" /\ st.ptr + 1 <= Len(fmt) /\ fmt[st.ptr + 1] = "}"
  THEN [st EXCEPT !.out = Append(@, "}"), !.ptr = st.ptr + 2]
  ELSE [st EXCEPT !.out = Append(@, fmt[st.ptr]), !.ptr = st.ptr + 1]

\* the branch of format for any other character
FormatLiteral(fmt, st) ==
  [st EXCEPT !.out = Append(@, fmt[st.ptr]), !.ptr = st.ptr + 1]

\* one iteration of the while loop of format, at fmt[st.ptr]
FormatStep(fmt, uh, st) ==
  IF fmt[st.ptr] = "{" THEN FormatBrace(fmt, uh, st)
  ELSE IF fmt[st.ptr] = "\\" /\ st.ptr + 1 <= Len(fmt) THEN FormatEscape(fmt, st)
  ELSE FormatLiteral(fmt, st)

RECURSIVE FormatLoop(_, _, _)
FormatLoop(fmt, uh, st) ==
  IF st.ptr > Len(fmt) THEN st
  ELSE FormatLoop(fmt, uh, FormatStep(fmt, uh, st))

\* format(op, uh): what it writes to stdout and to stderr
format(fmt, uh) ==
  LET st == FormatLoop(fmt, uh, [ptr |-> 1, out |-> <<>>, err |-> <<>>])
  IN [out |-> Append(st.out, "\n"), err |-> st.err]

(***************************************************************************)
(* The program state.                                                      *)
(***************************************************************************)
VARIABLES
  o,          \* struct option, as the command line filled it
  pc,         \* where the program is: "main", a step of singleurl,
              \* "done" (main returned), "exit" (errorf), "crash"
  node,       \* main: the position in o.url_list
  entered,    \* main: the do-while body has run at least once
  fpos,       \* main: the read position in the stream o.url
  url,        \* singleurl: its url argument (None is NULL)
  uh,         \* singleurl: the URL handle
  varset,     \* set: the indexes of variables[] already set
  si,         \* set: the position in o.set_list
  api,        \* singleurl: the position in o.append_path
  aqi,        \* singleurl: the position in o.append_query
  stdout,     \* the lines written, each with the call that wrote it
  stderr,     \* the diagnostics written
  exit_code,  \* the exit status of the process
  calls,      \* history: the curl_url_set calls of this singleurl call
  execs       \* history: the url argument of every singleurl call

vars == <<o, pc, node, entered, fpos, url, uh, varset, si, api, aqi,
          stdout, stderr, exit_code, calls, execs>>

ERROR_SET == 5
ERROR_URL == 7
BUFFER_SIZE == 4096

\* errorf(exit_code, ...): writes the message and exits
errorf(code, msg) ==
  /\ stderr' = Append(stderr, msg)
  /\ exit_code' = code
  /\ pc' = "exit"

(***************************************************************************)
(* singleurl(): the order of its steps.  Each gives the step that follows  *)
(* it, the loops over empty lists being passed.                            *)
(***************************************************************************)
AfterPath == IF o.append_query # <<>> THEN "aquery" ELSE "render"
AfterSet == IF o.append_path # <<>> THEN "apath" ELSE AfterPath
AfterRedirect == IF o.set_list # <<>> THEN "set" ELSE AfterSet
AfterBase == IF IsSome(o.redirect) THEN "redirect" ELSE AfterRedirect
\* a singleurl that applies the redirect outside if(url)
FirstStepRedirectAlways(u) == IF IsSome(u) THEN "base" ELSE AfterBase

\* the redirect is inside if(url)
FirstStep(u) == IF IsSome(u) THEN "base" ELSE AfterRedirect

\* main calls singleurl(&o, u): a fresh handle and fresh locals
CallSingleurl(u) ==
  /\ url' = u
  /\ uh' = curl_url
  /\ varset' = {}
  /\ si' = 1
  /\ api' = 1
  /\ aqi' = 1
  /\ calls' = <<>>
  /\ execs' = Append(execs, u)
  /\ pc' = FirstStep(u)

\* curl_url_set(uh, CURLUPART_URL, url, ...), its result not looked at
SetBase ==
  /\ pc = "base"
  /\ LET r == curl_url_set(uh, "url", Val(url), FALSE)
     IN /\ uh' = r.uh
        /\ calls' = Append(calls, <<"base", "url", r.rc>>)
  /\ pc' = AfterBase
  /\ UNCHANGED <<o, node, entered, fpos, url, varset, si, api, aqi,
                 stdout, stderr, exit_code, execs>>

Redirect ==
  /\ pc = "redirect"
  /\ LET r == curl_url_set(uh, "url", Val(o.redirect), FALSE)
     IN /\ uh' = r.uh
        /\ calls' = Append(calls, <<"redirect", "url", r.rc>>)
  /\ pc' = AfterRedirect
  /\ UNCHANGED <<o, node, entered, fpos, url, varset, si, api, aqi,
                 stdout, stderr, exit_code, execs>>

(***************************************************************************)
(* set(): one iteration of its loop over o.set_list.                       *)
(***************************************************************************)
\* the length of the component name of set, whose first '=' is at ptr: a
\* ':' before the '=' is the no-encode marker, not part of the name
SetVlen(set, ptr) == IF set[ptr - 1] = ":" THEN ptr - 2 ELSE ptr - 1

\* the index in variables[] of the component set names, 0 when none does
SetFind(set, vlen) ==
  IF \E i \in 1..NUM_COMPONENTS :
       Len(variables[i].name) = vlen /\ strncasecmpEq(set, 1, variables[i].name, vlen)
  THEN CHOOSE i \in 1..NUM_COMPONENTS :
         /\ Len(variables[i].name) = vlen
         /\ strncasecmpEq(set, 1, variables[i].name, vlen)
         /\ \A j \in 1..(i - 1) :
              ~(Len(variables[j].name) = vlen
                /\ strncasecmpEq(set, 1, variables[j].name, vlen))
  ELSE 0

\* a set without the varset[i] test
SetNeverDuplicate(i, vs) == FALSE

\* varset[i] is looked at before the component is set
SetIsDuplicate(i, vs) == i \in vs

SetStep ==
  /\ pc = "set"
  /\ LET set == o.set_list[si]
         ptr == strchr(set, "=")
     IN
     IF ptr > 1
     THEN LET vlen == SetVlen(set, ptr)
              urlencode == set[ptr - 1] # ":"
              i == SetFind(set, vlen)
          IN
          IF i = 0
          THEN /\ errorf(ERROR_SET, <<"UnknownComponent", set>>)
               /\ UNCHANGED <<uh, varset, si, calls>>
          ELSE IF SetIsDuplicate(i, varset)
          THEN /\ errorf(ERROR_SET, <<"DuplicateComponent", variables[i].name>>)
               /\ UNCHANGED <<uh, varset, si, calls>>
          ELSE LET r == curl_url_set(uh, variables[i].part,
                                     SubStr(set, ptr + 1, Len(set)), urlencode)
               IN /\ uh' = r.uh
                  /\ calls' = Append(calls, <<"set", variables[i].part, r.rc>>)
                  /\ varset' = varset \cup {i}
                  /\ si' = si + 1
                  /\ pc' = IF si < Len(o.set_list) THEN "set" ELSE AfterSet
                  /\ UNCHANGED <<stderr, exit_code>>
     ELSE /\ errorf(ERROR_SET, <<"InvalidSetSyntax", set>>)
          /\ UNCHANGED <<uh, varset, si, calls>>
  /\ UNCHANGED <<o, node, entered, fpos, url, api, aqi, stdout, execs>>

(***************************************************************************)
(* singleurl(): one iteration of the path loop and of the query loop.      *)
(***************************************************************************)
\* what a pointer that was never assigned may be read as, when the read
\* does not end the process
UninitStrings == { <<>>, <<"(","n","i","l",")">> }

\* opath[olen-1] == '/': with olen = 0 this reads the byte before the
\* string, which may or may not hold a '/'
EndsWithSlash(opath, before) ==
  IF Len(opath) = 0 THEN before ELSE opath[Len(opath)] = "/"

AppendPath ==
  /\ pc = "apath"
  /\ \E before \in BOOLEAN :
       LET apath == o.append_path[api]
           opath == Val(curl_url_get(uh, "path").val)
           npath == opath \o (IF EndsWithSlash(opath, before) THEN <<>> ELSE <<"/">>)
                          \o apath
           r     == curl_url_set(uh, "path", npath, FALSE)
       IN /\ (Len(opath) # 0 => before = FALSE)
          /\ uh' = r.uh
          /\ calls' = Append(calls, <<"path", "path", r.rc>>)
  /\ api' = api + 1
  /\ pc' = IF api < Len(o.append_path) THEN "apath" ELSE AfterPath
  /\ UNCHANGED <<o, node, entered, fpos, url, varset, si, aqi,
                 stdout, stderr, exit_code, execs>>

\* the new query: the old one, a '&' and the segment
NewQuery(oq, aq) == oq \o <<"&">> \o aq

AppendQuery ==
  /\ pc = "aquery"
  /\ LET g == curl_url_get(uh, "query")
     IN \E oq \in (IF g.rc = CURLUE_OK THEN {g.val} ELSE {None} \cup {Some(x) : x \in UninitStrings}) :
          IF oq = None
          THEN \* the read of the unassigned oq ends the process
               /\ pc' = "crash"
               /\ UNCHANGED <<uh, calls, aqi>>
          ELSE LET r == curl_url_set(uh, "query", NewQuery(Val(oq), o.append_query[aqi]), FALSE)
               IN /\ uh' = r.uh
                  /\ calls' = Append(calls, <<"query", "query", r.rc>>)
                  /\ aqi' = aqi + 1
                  /\ pc' = IF aqi < Len(o.append_query) THEN "aquery" ELSE "render"
  /\ UNCHANGED <<o, node, entered, fpos, url, varset, si, api,
                 stdout, stderr, exit_code, execs>>

(***************************************************************************)
(* singleurl(): the output, and the return to main.                        *)
(***************************************************************************)
\* a singleurl that reports the failure and returns to main
RenderFailReturns ==
  /\ stderr' = Append(stderr, <<"IncompleteURL", url>>)
  /\ pc' = "main"
  /\ UNCHANGED <<stdout, exit_code>>

\* no URL could be made of the handle: errorf(ERROR_URL, ...)
RenderFail ==
  /\ errorf(ERROR_URL, <<"IncompleteURL", url>>)
  /\ UNCHANGED stdout

Render ==
  /\ pc = "render"
  /\ IF IsSome(o.format)
     THEN LET f == format(Val(o.format), uh)
          IN /\ stdout' = Append(stdout, [call |-> Len(execs), text |-> f.out])
             /\ stderr' = stderr \o f.err
             /\ pc' = "main"
             /\ UNCHANGED exit_code
     ELSE LET g == curl_url_get(uh, "url")
          IN IF g.rc = CURLUE_OK
             THEN /\ stdout' = Append(stdout, [call |-> Len(execs),
                                                text |-> Append(Val(g.val), "\n")])
                  /\ pc' = "main"
                  /\ UNCHANGED <<stderr, exit_code>>
             ELSE RenderFail
  /\ UNCHANGED <<o, node, entered, fpos, url, uh, varset, si, api, aqi,
                 calls, execs>>

(***************************************************************************)
(* main(): the loop over the stream, the loop over the URL list, and the   *)
(* return.                                                                 *)
(***************************************************************************)
\* fgets(buffer, sizeof(buffer), o.url): the characters it stores, at most
\* sizeof(buffer) - 1 and none after a newline
fgets(file, pos) ==
  LET rest == SubStr(file, pos, Len(file))
      nl   == strchr(rest, "\n")
      n    == IF nl # 0 /\ nl <= BUFFER_SIZE - 1 THEN nl
              ELSE Min(Len(rest), BUFFER_SIZE - 1)
  IN SubStr(rest, 1, n)

\* the URL main takes from the buffer, None when it skips the buffer
LineUrl(buffer) ==
  LET eol == strchr(buffer, "\n")
  IN IF eol > 1
     THEN Some(SubStr(buffer, 1,
                      (IF buffer[eol - 1] = "\r" THEN eol - 1 ELSE eol) - 1))
     ELSE None

ReadLine ==
  /\ pc = "main"
  /\ IsSome(o.url)
  /\ fpos <= Len(Val(o.url))
  /\ LET buffer == fgets(Val(o.url), fpos)
         u == LineUrl(buffer)
     IN /\ fpos' = fpos + Len(buffer)
        /\ IF IsSome(u)
           THEN CallSingleurl(u)
           ELSE UNCHANGED <<pc, url, uh, varset, si, api, aqi, calls, execs>>
  /\ UNCHANGED <<o, node, entered, stdout, stderr, exit_code>>

\* a loop that ends when the last node is reached: while(node->next)
LoopAgainBeforeLast == node < Len(o.url_list)

\* while(node)
LoopAgain == node <= Len(o.url_list)

\* the body of the do-while loop over o.url_list
NextUrl ==
  /\ pc = "main"
  /\ ~IsSome(o.url)
  /\ ~entered \/ LoopAgain
  /\ entered' = TRUE
  /\ IF node <= Len(o.url_list)
     THEN /\ CallSingleurl(Some(o.url_list[node]))
          /\ node' = node + 1
     ELSE /\ CallSingleurl(None)
          /\ node' = node
  /\ UNCHANGED <<o, fpos, stdout, stderr, exit_code>>

MainReturn ==
  /\ pc = "main"
  /\ IF IsSome(o.url) THEN fpos > Len(Val(o.url))
                      ELSE entered /\ ~LoopAgain
  /\ pc' = "done"
  /\ UNCHANGED <<o, node, entered, fpos, url, uh, varset, si, api, aqi,
                 stdout, stderr, exit_code, calls, execs>>

Next ==
  \/ ReadLine
  \/ NextUrl
  \/ SetBase
  \/ Redirect
  \/ SetStep
  \/ AppendPath
  \/ AppendQuery
  \/ Render
  \/ MainReturn

(***************************************************************************)
(* The command lines checked.  Each family varies one kind of argument     *)
(* widely and the others a little; Init is the state when main has parsed  *)
(* the command line.                                                       *)
(***************************************************************************)
BSeq(S, n) == UNION {[1..k -> S] : k \in 0..n}

RECURSIVE Concat(_)
Concat(ss) == IF ss = <<>> THEN <<>> ELSE Head(ss) \o Concat(Tail(ss))

UrlA == <<"h","t","t","p",":","/","/","h","/","a">>
UrlB == <<"g">>
UrlD == <<"h","/","d","/">>
UrlQ == <<"h","/","?">>
UrlEmpty == <<>>
UrlEx == <<"e","x","a","m","p","l","e",".","c","o","m">>

SetNames ==
  { <<"h","o","s","t">>, <<"H","o","S","T">>, <<"p","a","t","h">>,
    <<"h","o","s">>, <<>> }

SetArgs ==
  { n \o m \o <<"=">> \o v :
      n \in SetNames, m \in {<<>>, <<":">>}, v \in {<<>>, <<"x">>} }
  \cup { <<"h","o","s","t">> }

AppendArgs ==
  { <<"p","a","t","h","=","a">>, <<"P","A","T","H","=">>,
    <<"p","a","t","h","=","a","/","b">>,
    <<"q","u","e","r","y","=","k","=","v">>, <<"Q","u","e","r","y","=","k","2">>,
    <<"q","u","e","r","y","=","=","v">> }

Tokens ==
  { <<"{">>, <<"}">>, <<"\\">>, <<"n">>, <<"h","o","s","t">>,
    <<"Q","u","e","r","y">>, <<"h","o","s">> }

\* the template {{literal}} {host}\n
TemplateLiteralHost ==
  <<"{","{","l","i","t","e","r","a","l","}","}"," ","{","h","o","s","t","}","\\","n">>
TemplateHost == <<"{","h","o","s","t","}">>

StreamChars == {"h", "\r", "\n"}

MakeOptions(urls, redirect, sets, appends, fmt, stream) ==
  LET o1 == AddUrls(NoOptions, urls)
      o2 == AddSets(o1, sets)
      o3 == AddAppends(o2, appends)
  IN [o3 EXCEPT !.redirect = redirect, !.format = fmt, !.url = stream]

BatchOptions ==
  { MakeOptions(urls, redirect, sets, appends, fmt, None) :
      urls \in BSeq({UrlA, UrlB, UrlEmpty}, MaxUrls),
      redirect \in {None, Some(<<"/","r">>), Some(<<" ">>)},
      sets \in { <<>>, << <<"p","o","r","t","=","x">> >>,
                 << <<"h","o","s","t","=","x">> >> },
      appends \in { <<>>, << <<"p","a","t","h","=","b">>,
                            <<"q","u","e","r","y","=","k","=","v">> >> },
      fmt \in {None, Some(TemplateHost)} }

SetOptions ==
  { MakeOptions(urls, None, sets, <<>>, None, None) :
      urls \in {<<>>, <<UrlA>>}, sets \in BSeq(SetArgs, MaxSets) }

AppendOptions ==
  { MakeOptions(urls, None, sets, appends, None, None) :
      urls \in {<<>>, <<UrlA>>, <<UrlD>>, <<UrlQ>>},
      sets \in { <<>>, << <<"p","a","t","h","=">> >>,
                 << <<"q","u","e","r","y","=">> >> },
      appends \in BSeq(AppendArgs, MaxAppends) }

FormatOptions ==
  { MakeOptions(urls, None, <<>>, <<>>, Some(fmt), None) :
      urls \in {<<>>, <<UrlEx>>, <<UrlQ>>},
      fmt \in {Concat(ts) : ts \in BSeq(Tokens, MaxTokens)}
              \cup {TemplateLiteralHost} }

StreamOptions ==
  { MakeOptions(<<>>, None, <<>>, <<>>, fmt, Some(file)) :
      fmt \in {None, Some(TemplateHost)}, file \in BSeq(StreamChars, MaxFile) }

Init ==
  /\ o \in BatchOptions \cup SetOptions \cup AppendOptions
            \cup FormatOptions \cup StreamOptions
  /\ pc = "main"
  /\ node = 1
  /\ entered = FALSE
  /\ fpos = 1
  /\ url = None
  /\ uh = curl_url
  /\ varset = {}
  /\ si = 1
  /\ api = 1
  /\ aqi = 1
  /\ stdout = <<>>
  /\ stderr = <<>>
  /\ exit_code = 0
  /\ calls = <<>>
  /\ execs = <<>>

Spec == Init /\ [][Next]_vars

(***************************************************************************)
(* Properties.                                                             *)
(***************************************************************************)
Last(q) == q[Len(q)]
IsPrefix(a, b) == Len(a) <= Len(b) /\ a = SubSeq(b, 1, Len(a))
Reported(kind) == \E i \in 1..Len(stderr) : stderr[i][1] = kind

\* C1, as the specification states it: when the default whole-URL render
\* of an input fails, IncompleteURL is reported for that input only and
\* the batch continues with the later inputs: the process does not end.
C1_BatchContinues == Reported("IncompleteURL") => pc # "exit"

\* C1, amended: when the default whole-URL render of an input fails,
\* IncompleteURL is reported for that input, once, and the process exits
\* with ERROR_URL: the inputs before it have been rendered, in input
\* order, no line is written for the failing input, and no step is taken
\* after the exit, so that no later input is executed or rendered.
C1_IncompleteURLIsFatal ==
  /\ [](Reported("IncompleteURL") =>
         /\ pc = "exit"
         /\ exit_code = ERROR_URL
         /\ Last(stderr) = <<"IncompleteURL", Last(execs)>>
         /\ Cardinality({i \in 1..Len(stderr) : stderr[i][1] = "IncompleteURL"}) = 1
         /\ Len(stdout) = Len(execs) - 1
         /\ \A k \in 1..Len(stdout) : stdout[k].call = k)
  /\ [][pc # "exit"]_vars

C1_Witness ==
  /\ pc = "exit"
  /\ exit_code = ERROR_URL
  /\ ~IsSome(o.url)
  /\ Len(execs) = 1
  /\ Len(o.url_list) = 2

\* the singleurl calls main makes for a literal URL list
LiteralCalls ==
  IF o.url_list = <<>> THEN << None >>
  ELSE [i \in 1..Len(o.url_list) |-> Some(o.url_list[i])]

\* C6: for a literal URL list of n >= 1 items main calls singleurl
\* exactly n times, once per item and in input order, and the output
\* lines are in that order; for an empty list and no stream it calls
\* singleurl exactly once, with NULL.  At every moment the calls made
\* are a prefix of that sequence and every line written belongs to a
\* call made, in call order; when main returns the calls are the whole
\* sequence and each wrote its line.
C6_OncePerUrlInOrder ==
  ~IsSome(o.url) =>
    /\ IsPrefix(execs, LiteralCalls)
    /\ \A k \in 1..Len(stdout) :
         /\ stdout[k].call \in 1..Len(execs)
         /\ k > 1 => stdout[k - 1].call < stdout[k].call
    /\ pc = "done" =>
         /\ execs = LiteralCalls
         /\ Len(stdout) = Len(execs)
         /\ \A k \in 1..Len(stdout) : stdout[k].call = k

C6_Witness ==
  /\ pc = "done"
  /\ o.url_list = <<UrlA, UrlB>>
  /\ Len(stdout) = 2
  /\ stdout[1].text # stdout[2].text

Rank(step) ==
  CASE step = "base" -> 1
    [] step = "redirect" -> 2
    [] step = "set" -> 3
    [] step = "path" -> 4
    [] OTHER -> 5

CallsOf(step) == {i \in 1..Len(calls) : calls[i][1] = step}
PastRedirect == pc \in {"set", "apath", "aquery", "render"}

\* C9, as the specification states it: in every singleurl call with a
\* redirect, the redirect is set on the handle before the sets and the
\* appends, whether or not a base URL was given.
C9_RedirectAlwaysApplied ==
  (PastRedirect /\ IsSome(o.redirect)) => CallsOf("redirect") # {}

\* C9, amended: in every singleurl call with a redirect and a base URL,
\* the redirect is set as url right after the base and before the sets
\* and the appends; with no base URL (NULL) the redirect is not applied
\* at all.  The calls on the handle are always in the order base,
\* redirect, sets, path appends, query appends.
C9_RedirectOnlyAfterBase ==
  /\ \A i, j \in 1..Len(calls) : i < j => Rank(calls[i][1]) <= Rank(calls[j][1])
  /\ Cardinality(CallsOf("base")) <= 1
  /\ Cardinality(CallsOf("redirect")) <= 1
  /\ ~IsSome(o.redirect) => CallsOf("redirect") = {}
  /\ (PastRedirect /\ IsSome(o.redirect)) =>
       IF IsSome(url)
       THEN /\ Len(calls) >= 2
            /\ calls[1][1] = "base"
            /\ calls[2][1] = "redirect"
       ELSE CallsOf("base") = {} /\ CallsOf("redirect") = {}

C9_Witness ==
  /\ pc = "render"
  /\ {calls[i][1] : i \in 1..Len(calls)} = {"base", "redirect", "set", "path", "query"}

\* the component a --set argument names: the text before the first '=',
\* without the ':' marker, in lower case
ArgName(a) ==
  LET raw == SubStr(a, 1, strchr(a, "=") - 1)
      n   == IF raw # <<>> /\ Last(raw) = ":" THEN SubStr(raw, 1, Len(raw) - 1) ELSE raw
  IN [k \in 1..Len(n) |-> tolower(n[k])]

IsSetOp(a) ==
  /\ strchr(a, "=") > 1
  /\ \E i \in 1..NUM_COMPONENTS : variables[i].name = ArgName(a)

Repeats(list, j) == \E i \in 1..(j - 1) : ArgName(list[i]) = ArgName(list[j])
HasRepeat(list) == \E j \in 1..Len(list) : Repeats(list, j)
FirstRepeat(list) ==
  CHOOSE j \in 1..Len(list) :
    Repeats(list, j) /\ \A k \in 1..(j - 1) : ~Repeats(list, k)

\* C2: when the set list holds two SetOps that name the same component
\* (case ignored, with or without the ':' marker, whatever the values),
\* the set phase of every singleurl call ends in the fatal
\* DuplicateComponent error naming that component: the call never gets
\* past its set phase, nothing is written to stdout, and the process
\* exits with ERROR_SET at the first SetOp that repeats a component,
\* which is not handed to the engine.
C2_DuplicateComponentFatal ==
  ((\A k \in 1..Len(o.set_list) : IsSetOp(o.set_list[k])) /\ HasRepeat(o.set_list)) =>
    /\ pc \notin {"apath", "aquery", "render", "crash"}
    /\ execs # <<>> => pc \in {"base", "redirect", "set", "exit"}
    /\ stdout = <<>>
    /\ pc = "exit" =>
         /\ exit_code = ERROR_SET
         /\ stderr = << <<"DuplicateComponent",
                           ArgName(o.set_list[FirstRepeat(o.set_list)])>> >>
         /\ si = FirstRepeat(o.set_list)
         /\ Cardinality(CallsOf("set")) = si - 1

C2_Witness ==
  /\ pc = "exit"
  /\ stderr = << <<"DuplicateComponent", <<"h","o","s","t">> >> >>
  /\ o.set_list = << <<"h","o","s","t","=","x">>, <<"H","o","S","T",":","=">> >>

\* the query the specification expects of a query append: the segment
\* alone when the current query is empty or absent, joined with one '&'
\* otherwise
ExpectedQuery(cur, aq) ==
  LET oq == IF IsSome(cur) THEN Val(cur) ELSE <<>>
  IN IF oq = <<>> THEN aq ELSE oq \o <<"&">> \o aq

\* C3, as the specification states it: a query append joins with '&'
\* only when the current query is non-empty; appended to an empty or
\* absent query the segment becomes the whole query, with no leading '&'.
C3_QueryAppendJoin ==
  [][(pc = "aquery" /\ pc' # "crash") =>
       uh'["query"] = Some(ExpectedQuery(uh["query"], o.append_query[aqi]))]_vars

\* the path the specification expects of a path append: one '/' between
\* the current path (absent: empty) and the segment, unless the current
\* path ends with '/'
ExpectedPath(cur, seg) ==
  LET op == IF IsSome(cur) THEN Val(cur) ELSE <<>>
  IN op \o (IF op # <<>> /\ Last(op) = "/" THEN <<>> ELSE <<"/">>) \o seg

\* C4, as the specification states it: a path append puts exactly one '/'
\* between the current path and the segment unless the current path ends
\* with '/'; appended to an empty path the segment a gives /a.
C4_PathAppendJoin ==
  [][pc = "apath" =>
       uh'["path"] = Some(ExpectedPath(uh["path"], o.append_path[api]))]_vars

\* C5, as the specification states it: an engine error returned while
\* the redirect, a SetOp or an AppendOp is applied ends the run at that
\* step with the fatal EngineFailed error; only the result of setting the
\* base URL is ignored.
C5_EngineErrorFatal ==
  \A i \in 1..Len(calls) :
    (calls[i][1] # "base" /\ calls[i][3] # CURLUE_OK) =>
      /\ pc = "exit"
      /\ i = Len(calls)
      /\ Reported("EngineFailed")

TextLiteralHost ==
  <<"{","l","i","t","e","r","a","l","}"," ">> \o UrlEx \o <<"\n", "\n">>
TextLiteralHostTwoBraces ==
  <<"{","l","i","t","e","r","a","l","}","}"," ">> \o UrlEx \o <<"\n", "\n">>

RenderedLiteralHost ==
  /\ pc = "main"
  /\ stdout # <<>>
  /\ o.format = Some(TemplateLiteralHost)
  /\ uh["host"] = Some(UrlEx)

\* C7, as the specification states it: the template {{literal}} {host}\n
\* against a handle whose host is example.com gives {literal} example.com,
\* the newline of the escape and the trailing newline.
C7_LiteralHostOneBrace == RenderedLiteralHost => Last(stdout).text = TextLiteralHost

\* C7, amended: the template {{literal}} {host}\n against a handle whose
\* host is example.com gives {literal}} example.com, the newline of the
\* escape and the trailing newline: {{ is written as one {, {host} is
\* replaced by the host, and each of the two } after literal is written
\* as it stands, there being no escape for }.
C7_LiteralHostTwoBraces ==
  RenderedLiteralHost =>
    /\ Last(stdout).text = TextLiteralHostTwoBraces
    /\ stderr = <<>>

C7_Witness == RenderedLiteralHost /\ Len(Last(stdout).text) = 24

\* what format has written when its loop first stands at a '{' that is
\* not followed by '{' and has no '}' after it; None when that never
\* happens
RECURSIVE BeforeUnterminated(_, _, _)
BeforeUnterminated(fmt, h, st) ==
  IF st.ptr > Len(fmt) THEN None
  ELSE IF /\ fmt[st.ptr] = "{"
          /\ ~(st.ptr + 1 <= Len(fmt) /\ fmt[st.ptr + 1] = "{")
          /\ strchrFrom(fmt, st.ptr, "}") = 0
  THEN Some(st.out)
  ELSE BeforeUnterminated(fmt, h, FormatStep(fmt, h, st))

\* C8, as the specification states it: at a '{' that is not followed by
\* '{' and has no closing '}' rendering stops: the output is what was
\* rendered before that '{' and the trailing newline, and none of the
\* characters after it.
C8_UnterminatedTruncates ==
  (pc = "main" /\ stdout # <<>> /\ IsSome(o.format)) =>
    LET b == BeforeUnterminated(Val(o.format), uh,
                                [ptr |-> 1, out |-> <<>>, err |-> <<>>])
    IN IsSome(b) => Last(stdout).text = Append(Val(b), "\n")

\* the lines of a stream: the text between the newlines, and what
\* follows the last newline
RECURSIVE SplitLines(_)
SplitLines(f) ==
  LET nl == strchr(f, "\n")
  IN IF nl = 0 THEN << f >>
     ELSE << SubStr(f, 1, nl - 1) >> \o SplitLines(SubStr(f, nl + 1, Len(f)))

StripCR(l) == IF l # <<>> /\ Last(l) = "\r" THEN SubStr(l, 1, Len(l) - 1) ELSE l

\* the singleurl calls the specification expects for a stream: one for
\* each line that is not empty once a trailing \r is stripped
StreamCalls(f) ==
  LET ls == SplitLines(f)
      keep == SelectSeq([i \in 1..Len(ls) |-> StripCR(ls[i])], LAMBDA l : l # <<>>)
  IN [i \in 1..Len(keep) |-> Some(keep[i])]

\* C10, as the specification states it: for stream input singleurl is
\* called exactly once, in stream order, for each line that is non-empty
\* after one trailing \r is stripped, with the stripped text; a line that
\* is empty or holds only its terminator causes no call, and no other
\* line is dropped.
C10_OncePerNonEmptyLine ==
  IsSome(o.url) =>
    /\ IsPrefix(execs, StreamCalls(Val(o.url)))
    /\ pc = "done" => execs = StreamCalls(Val(o.url))

====
